---- MODULE Spec2Model ----
(***************************************************************************)
(* Model of the Streamlit Gmail sender (src/main.py): the address          *)
(* validator, the attachment stager, the message builder, the SMTP         *)
(* transport, the defaults store and the "send" / "save defaults"          *)
(* handlers of the script.                                                  *)
(*                                                                         *)
(* Strings that the code parses (recipient input, addresses) are sequences *)
(* of one-character strings, so that split / strip / join / the regular    *)
(* expression are computed character by character as Python computes them. *)
(***************************************************************************)
EXTENDS Integers, Sequences, FiniteSets, TLC

VARIABLES
    \* ---- st.session_state (src/main.py:56-64) and the document store
    default_subject, default_body, default_files, default_file_metadata,
    defaults_collection,
    \* position of the script in the defaults flow, and what was observed there
    dpc, saved, load_ok,
    \* ---- the send handler (src/main.py:191-222)
    pc, recipients_raw, s_subject, s_body, more_files,
    recipients, tmp_paths, msg, ui, exception,
    \* the temporary directory and the relay's view of the run
    disk, relay_log,
    \* history of the current send: the pieces the raw input was typed from,
    \* the steps taken, the staging calls made, the temp files created
    raw_pieces, steps, stage_log, created,
    \* ---- the validator applied to a typed candidate string
    candidate, verdict

defaultsVars ==
    <<default_subject, default_body, default_file_metadata,
      defaults_collection, dpc, saved, load_ok>>

sendVars ==
    <<pc, recipients_raw, s_subject, s_body, more_files, recipients, tmp_paths,
      msg, ui, exception, disk, relay_log, raw_pieces, steps, stage_log, created>>

validatorVars ==
    <<candidate, verdict>>

vars ==
    <<default_subject, default_body, default_files, default_file_metadata,
      defaults_collection, dpc, saved, load_ok,
      pc, recipients_raw, s_subject, s_body, more_files, recipients, tmp_paths,
      msg, ui, exception, disk, relay_log, raw_pieces, steps, stage_log, created,
      candidate, verdict>>

(***************************************************************************)
(* Bounds of the model.                                                    *)
(***************************************************************************)
\* longest candidate string given to the validator
MaxLen ==
    6
\* most comma-separated pieces in one recipient input
MaxPieces ==
    2
\* most files in one upload of the send form
MaxFiles ==
    2
\* most files in one upload of the defaults form
MaxDefaultFiles ==
    1

\* the falsy return value of send_via_gmail_ssl (no error description)
None ==
    [text |-> "", args |-> <<>>]

Range(s) ==
    {s[i] : i \in 1..Len(s)}

SeqsUpTo(S, n) ==
    UNION {[1..k -> S] : k \in 0..n}

(***************************************************************************)
(* Characters and Python string operations.                                *)
(***************************************************************************)
Alnum ==
    {"a", "b", "c", "d", "e", "f", "0"}

\* what str.strip() removes
Whitespace ==
    {" ", "\n", "\t"}

RECURSIVE LStrip(_)
LStrip(s) ==
    IF s # <<>> /\ Head(s) \in Whitespace THEN LStrip(Tail(s)) ELSE s

RECURSIVE RStrip(_)
RStrip(s) ==
    IF s # <<>> /\ s[Len(s)] \in Whitespace
    THEN RStrip(SubSeq(s, 1, Len(s) - 1))
    ELSE s

\* str.strip()
Strip(s) ==
    RStrip(LStrip(s))

\* str.split(sep) for a one-character separator: "".split(",") is [""]
RECURSIVE SplitFrom(_, _, _, _)
SplitFrom(s, sep, i, cur) ==
    IF i > Len(s) THEN <<cur>>
    ELSE IF s[i] = sep THEN <<cur>> \o SplitFrom(s, sep, i + 1, <<>>)
    ELSE SplitFrom(s, sep, i + 1, Append(cur, s[i]))

Split(s, sep) ==
    SplitFrom(s, sep, 1, <<>>)

\* sep.join(parts)
RECURSIVE Join(_, _)
Join(parts, sep) ==
    IF parts = <<>> THEN <<>>
    ELSE IF Len(parts) = 1 THEN parts[1]
    ELSE parts[1] \o sep \o Join(Tail(parts), sep)

(***************************************************************************)
(* is_valid_email: re.match of                                             *)
(*   ^[a-zA-Z0-9_.+-]+@[a-zA-Z0-9-]+\.[a-zA-Z0-9-.]+$                      *)
(***************************************************************************)
LocalChars ==
    Alnum \cup {"_", ".", "+", "-"}

DomainChars ==
    Alnum \cup {"-"}

SuffixChars ==
    Alnum \cup {"-", "."}

\* positions where `$` matches: the end of the string, and just before a
\* newline that is the last character
DollarEnds(s) ==
    {Len(s)} \cup (IF s # <<>> /\ s[Len(s)] = "\n" THEN {Len(s) - 1} ELSE {})

is_valid_email(email) ==
    \E e \in DollarEnds(email) :
      \E at \in 2..e :
        \E dot \in (at + 2)..(e - 1) :
          /\ \A i \in 1..(at - 1) : email[i] \in LocalChars
          /\ email[at] = "@"
          /\ \A i \in (at + 1)..(dot - 1) : email[i] \in DomainChars
          /\ email[dot] = "."
          /\ \A i \in (dot + 1)..e : email[i] \in SuffixChars

(***************************************************************************)
(* Configuration and uploads.                                              *)
(***************************************************************************)
GMAIL_USER ==
    <<"a", "@", "b", ".", "c">>

GMAIL_APP_PASSWORD ==
    "app-password"

\* max_size of save_uploaded_files_to_tmp: 10 MiB
max_size ==
    10 * 1024 * 1024

\* an upload exactly at the cap and one a byte over it
Files ==
    { [name |-> [stem |-> "report", ext |-> ".txt"], size |-> max_size],
      [name |-> [stem |-> "video", ext |-> ".bin"], size |-> max_size + 1] }

Batches ==
    SeqsUpTo(Files, MaxFiles)

DefaultBatches ==
    SeqsUpTo(Files, MaxDefaultFiles)

Subjects ==
    {"", "S"}

Bodies ==
    {"B"}

\* os.path.splitext(f.name)[1]
splitext1(name) ==
    name.ext

\* os.path.basename(path) of a temp path: prefix, unique part, suffix
basename(path) ==
    <<"stmail_", path.id, path.suffix>>

\* os.path.exists / os.path.isfile on the temp directory
exists(d, path) ==
    \E e \in d : e.path = path

\* tempfile.NamedTemporaryFile(prefix="stmail_", suffix=suffix, delete=False):
\* a name no existing file has
NewTmpName(d, suffix) ==
    [id |-> CHOOSE n \in 1..(Cardinality(d) + 1) : \A e \in d : e.path.id # n,
     suffix |-> suffix]

(***************************************************************************)
(* User-visible messages (st.error / st.warning / st.success).             *)
(***************************************************************************)
Message(level, text, args) ==
    [level |-> level, text |-> text, args |-> args]

MSG_NO_RECIPIENT ==
    "Please enter at least one recipient."

MSG_INVALID ==
    "Invalid email addresses: "

MSG_TOO_LARGE ==
    "File exceeds 10MB and will be skipped."

MSG_SENT ==
    "Email sent successfully."

MSG_AUTH ==
    "Authentication failed. Check your Gmail email and app password in .env."

MSG_REFUSED ==
    "One or more recipient emails are invalid."

MSG_FAILED ==
    "Failed to send email: "

(***************************************************************************)
(* save_uploaded_files_to_tmp.  io names the file (0: none) whose temp     *)
(* file cannot be created or written, and which of the two fails.          *)
(***************************************************************************)
TooLarge_at_cap(f) ==
    f.size >= max_size

TooLarge(f) ==
    f.size > max_size

IoPlans(files) ==
    {[failAt |-> 0, kind |-> "none"]}
    \cup {[failAt |-> i, kind |-> k] :
            i \in {j \in 1..Len(files) : ~TooLarge(files[j])},
            k \in {"create", "write"}}

RECURSIVE StageLoop(_, _, _, _, _, _)
StageLoop(files, i, paths, d, warnings, io) ==
    IF i > Len(files)
    THEN [paths |-> paths, disk |-> d, warnings |-> warnings, raised |-> FALSE]
    ELSE LET f == files[i] IN
         IF TooLarge(f)
         THEN StageLoop(files, i + 1, paths, d,
                        Append(warnings, Message("warning", MSG_TOO_LARGE, <<f.name>>)), io)
         ELSE IF io.failAt = i /\ io.kind = "create"
         THEN [paths |-> <<>>, disk |-> d, warnings |-> warnings, raised |-> TRUE]
         ELSE LET p  == NewTmpName(d, splitext1(f.name))
                  d2 == d \cup {[path |-> p, of |-> f.name, size |-> f.size,
                                   complete |-> io.failAt # i]}
              IN IF io.failAt = i
                 THEN [paths |-> <<>>, disk |-> d2, warnings |-> warnings, raised |-> TRUE]
                 ELSE StageLoop(files, i + 1, Append(paths, p), d2, warnings, io)

save_uploaded_files_to_tmp(files, d, io) ==
    StageLoop(files, 1, <<>>, d, <<>>, io)

(***************************************************************************)
(* build_message.                                                          *)
(***************************************************************************)
RECURSIVE Attachments(_, _)
Attachments(attachment_paths, d) ==
    IF attachment_paths = <<>> THEN <<>>
    ELSE LET path == Head(attachment_paths)
             rest == Attachments(Tail(attachment_paths), d)
         IN IF ~exists(d, path) THEN rest
            ELSE <<[filename |-> basename(path),
                    payload |-> (CHOOSE e \in d : e.path = path).of]>> \o rest

build_message(sender, rcpts, subject, body, attachment_paths, d) ==
    [From |-> sender,
     To |-> Join(rcpts, <<",", " ">>),
     Subject |-> IF subject = "" THEN "No Subject" ELSE subject,
     body |-> body,
     attachments |-> Attachments(attachment_paths, d)]

(***************************************************************************)
(* send_via_gmail_ssl.  relay is the behaviour of the relay in this        *)
(* session: the stage at which it fails (fault) and the envelope           *)
(* recipients it refuses at RCPT.                                          *)
(***************************************************************************)
RelayBehaviours(rcpts) ==
    {[fault |-> f, refused |-> {}] : f \in {"connect", "auth", "mail_from"}}
    \cup {[fault |-> f, refused |-> {}] : f \in {"data", "quit"}}
    \cup {[fault |-> "none", refused |-> R] : R \in SUBSET Range(rcpts)}

\* smtplib.SMTP.sendmail: raises SMTPRecipientsRefused only when the refused
\* addresses are as many as the list is long (len(senderrs) == len(to_addrs));
\* a relay that accepted no recipient rejects DATA
sendmail(to_addrs, relay) ==
    IF relay.fault = "mail_from" THEN "SMTPSenderRefused"
    ELSE IF Cardinality(relay.refused \cap Range(to_addrs)) = Len(to_addrs)
    THEN "SMTPRecipientsRefused"
    ELSE IF relay.fault = "data" \/ Range(to_addrs) \subseteq relay.refused
    THEN "SMTPDataError"
    ELSE "ok"

\* the with-block of lines 132-134: connect, login, sendmail, QUIT on exit
smtp_session(to_addrs, relay) ==
    IF relay.fault = "connect" THEN "OSError"
    ELSE IF relay.fault = "auth" THEN "SMTPAuthenticationError"
    ELSE LET r == sendmail(to_addrs, relay)
         IN IF relay.fault = "quit" THEN "SMTPResponseException" ELSE r

send_via_gmail_ssl(sender, app_password, rcpts, m, relay) ==
    LET raised == smtp_session(rcpts, relay) IN
    IF raised = "ok" THEN None
    ELSE IF raised = "SMTPAuthenticationError" THEN [text |-> MSG_AUTH, args |-> <<>>]
    ELSE IF raised = "SMTPRecipientsRefused" THEN [text |-> MSG_REFUSED, args |-> <<>>]
    ELSE [text |-> MSG_FAILED, args |-> <<raised>>]

(***************************************************************************)
(* The send handler: pieces of the recipient input.  Each piece is the     *)
(* text typed between two commas together with the address meant by it.    *)
(***************************************************************************)
Pieces ==
    { [text |-> <<" ">>, core |-> <<>>],
      [text |-> <<" ", "a", "@", "b", ".", "c">>, core |-> <<"a", "@", "b", ".", "c">>],
      [text |-> <<"d", "@", "e", ".", "f", " ">>, core |-> <<"d", "@", "e", ".", "f">>],
      [text |-> <<"b", "a", "d">>, core |-> <<"b", "a", "d">>] }

RawInputs ==
    SeqsUpTo(Pieces, MaxPieces)

\* the text of the input field: the pieces with commas between them
Typed(ps) ==
    Join([i \in 1..Len(ps) |-> ps[i].text], <<",">>)

\* line 192: not recipients_raw.strip()
NoInput(raw) ==
    Strip(raw) = <<>>

\* line 195: [r.strip() for r in recipients_raw.split(",") if r.strip()]
Recipients(raw) ==
    LET parts == Split(raw, ",")
        stripped == [i \in 1..Len(parts) |-> Strip(parts[i])]
    IN SelectSeq(stripped, LAMBDA r : r # <<>>)

\* line 196: [r for r in recipients if not is_valid_email(r)]
InvalidEmails_first_only(rcpts) ==
    IF rcpts # <<>> /\ ~is_valid_email(rcpts[1]) THEN <<rcpts[1]>> ELSE <<>>

InvalidEmails(rcpts) ==
    SelectSeq(rcpts, LAMBDA r : ~is_valid_email(r))

\* list.extend
Extend_in_front(list, more) ==
    more \o list

Extend(list, more) ==
    list \o more

\* lines 217-222: remove every listed path that exists
RemoveAll(d, paths) ==
    {e \in d : e.path \notin Range(paths)}

\* lines 191-200: the Send button was pressed with this form content
SendClicked(ps, subject, body, files) ==
    /\ pc = "idle"
    /\ LET raw == Typed(ps) IN
       /\ raw_pieces' = ps
       /\ recipients_raw' = raw
       /\ s_subject' = subject
       /\ s_body' = body
       /\ more_files' = files
       /\ steps' = <<"validate">>
       /\ IF NoInput(raw)
          THEN /\ ui' = <<Message("error", MSG_NO_RECIPIENT, <<>>)>>
               /\ recipients' = <<>>
               /\ pc' = "done"
          ELSE LET rcpts == Recipients(raw)
                   invalid_emails == InvalidEmails(rcpts)
               IN /\ recipients' = rcpts
                  /\ IF invalid_emails # <<>>
                     THEN /\ ui' = <<Message("error", MSG_INVALID, invalid_emails)>>
                          /\ pc' = "done"
                     ELSE /\ ui' = <<>>
                          /\ pc' = "stage_default"
    /\ tmp_paths' = <<>>
    /\ UNCHANGED <<msg, exception, disk, relay_log, stage_log, created>>
    /\ UNCHANGED <<default_files, defaultsVars, validatorVars>>

\* one call of the stager from the handler (lines 203-206)
StageBatch(which, files, next) ==
    /\ steps' = Append(steps, which)
    /\ IF files = <<>>
       THEN /\ pc' = next
            /\ UNCHANGED <<tmp_paths, disk, ui, exception, stage_log, created>>
       ELSE \E io \in IoPlans(files) :
              LET r == save_uploaded_files_to_tmp(files, disk, io) IN
              /\ disk' = r.disk
              /\ created' = created \cup (r.disk \ disk)
              /\ ui' = ui \o r.warnings
              /\ stage_log' = Append(stage_log,
                     [which |-> which, files |-> files, io |-> io,
                      raised |-> r.raised, paths |-> r.paths,
                      warnings |-> r.warnings])
              /\ IF r.raised
                 THEN /\ exception' = "staging"
                      /\ pc' = "cleanup"
                      /\ UNCHANGED tmp_paths
                 ELSE /\ tmp_paths' = Extend(tmp_paths, r.paths)
                      /\ pc' = next
                      /\ UNCHANGED exception
    /\ UNCHANGED <<recipients_raw, s_subject, s_body, more_files, recipients,
                   msg, relay_log, raw_pieces>>
    /\ UNCHANGED <<default_files, defaultsVars, validatorVars>>

\* lines 203-204
StageDefault ==
    /\ pc = "stage_default"
    /\ StageBatch("stage_default", default_files, "stage_extra")

\* lines 205-206
StageExtra ==
    /\ pc = "stage_extra"
    /\ StageBatch("stage_extra", more_files, "build")

\* line 209; reading a staged file may fail
Build ==
    /\ pc = "build"
    /\ steps' = Append(steps, "build")
    /\ \E readable \in BOOLEAN :
         IF readable \/ tmp_paths = <<>>
         THEN /\ msg' = <<build_message(GMAIL_USER, recipients, s_subject, s_body,
                                        tmp_paths, disk)>>
              /\ pc' = "send"
              /\ UNCHANGED exception
         ELSE /\ exception' = "build"
              /\ pc' = "cleanup"
              /\ UNCHANGED msg
    /\ UNCHANGED <<recipients_raw, s_subject, s_body, more_files, recipients,
                   tmp_paths, ui, disk, relay_log, raw_pieces, stage_log, created>>
    /\ UNCHANGED <<default_files, defaultsVars, validatorVars>>

\* lines 210-214
Send ==
    /\ pc = "send"
    /\ steps' = Append(steps, "send")
    /\ \E relay \in RelayBehaviours(recipients) :
         LET error == send_via_gmail_ssl(GMAIL_USER, GMAIL_APP_PASSWORD,
                                         recipients, msg[1], relay)
         IN /\ relay_log' = Append(relay_log,
                   [rcpts |-> recipients, relay |-> relay,
                    result |-> smtp_session(recipients, relay)])
            /\ ui' = Append(ui, IF error # None
                                THEN Message("error", error.text, error.args)
                                ELSE Message("success", MSG_SENT, <<>>))
    /\ pc' = "cleanup"
    /\ UNCHANGED <<recipients_raw, s_subject, s_body, more_files, recipients,
                   tmp_paths, msg, exception, disk, raw_pieces, stage_log, created>>
    /\ UNCHANGED <<default_files, defaultsVars, validatorVars>>

\* lines 215-222
Cleanup ==
    /\ pc = "cleanup"
    /\ steps' = Append(steps, "cleanup")
    /\ disk' = RemoveAll(disk, tmp_paths)
    /\ pc' = "done"
    /\ UNCHANGED <<recipients_raw, s_subject, s_body, more_files, recipients,
                   tmp_paths, msg, ui, exception, relay_log, raw_pieces,
                   stage_log, created>>
    /\ UNCHANGED <<default_files, defaultsVars, validatorVars>>

SendInit ==
    /\ pc = "idle"
    /\ recipients_raw = <<>>
    /\ s_subject = ""
    /\ s_body = ""
    /\ more_files = <<>>
    /\ recipients = <<>>
    /\ tmp_paths = <<>>
    /\ msg = <<>>
    /\ ui = <<>>
    /\ exception = "none"
    /\ relay_log = <<>>
    /\ raw_pieces = <<>>
    /\ steps = <<>>
    /\ stage_log = <<>>
    /\ created = {}
    /\ disk = {}

DefaultsInit ==
    /\ default_subject = ""
    /\ default_body = ""
    /\ default_file_metadata = <<>>
    /\ defaults_collection = <<>>
    /\ dpc = "start"
    /\ saved = <<>>
    /\ load_ok = FALSE

ValidatorInit ==
    /\ candidate = <<>>
    /\ verdict = is_valid_email(<<>>)

\* the send flow, started with any default attachments the "Save defaults"
\* handler can have left in the session (line 155)
Init ==
    /\ default_files \in DefaultBatches
    /\ DefaultsInit
    /\ SendInit
    /\ ValidatorInit

Next ==
    \/ \E ps \in RawInputs, subject \in Subjects, body \in Bodies, files \in Batches :
         SendClicked(ps, subject, body, files)
    \/ StageDefault
    \/ StageExtra
    \/ Build
    \/ Send
    \/ Cleanup

Spec ==
    Init /\ [][Next]_vars

(***************************************************************************)
(* The defaults store (a MongoDB collection, a sequence of documents) and  *)
(* the two places of the script that use it.                               *)
(***************************************************************************)
OTHER_USER ==
    <<"d", "@", "e", ".", "f">>

\* what the collection may hold when the application starts
InitialStores ==
    { <<>>,
      <<[user |-> GMAIL_USER]>>,
      <<[user |-> OTHER_USER, subject |-> "S", body |-> "B", file_metadata |-> <<>>]>> }

\* dict.get(key, default)
Get(doc, key, default) ==
    IF key \in DOMAIN doc THEN doc[key] ELSE default

Matching(coll, user) ==
    {i \in 1..Len(coll) : coll[i].user = user}

FirstMatch(coll, user) ==
    CHOOSE i \in Matching(coll, user) : \A j \in Matching(coll, user) : i <= j

\* collection.find_one({"user": user}): the document, or nothing
find_one(coll, user) ==
    IF Matching(coll, user) = {} THEN <<>> ELSE <<coll[FirstMatch(coll, user)]>>

\* collection.insert_one(doc)
insert_one(coll, doc) ==
    Append(coll, doc)

\* collection.update_one({"user": user}, {"$set": fields}, upsert=upsert)
update_one_as_insert(coll, user, fields, upsert) ==
    Append(coll, fields @@ [user |-> user])

update_one(coll, user, fields, upsert) ==
    IF Matching(coll, user) # {}
    THEN [coll EXCEPT ![FirstMatch(coll, user)] = fields @@ @]
    ELSE IF upsert THEN Append(coll, fields @@ [user |-> user])
    ELSE coll

\* line 158: [{"name": f.name, "size": f.size} for f in (d_files or [])]
FileMetadata(files) ==
    [i \in 1..Len(files) |-> [name |-> files[i].name, size |-> files[i].size]]

\* lines 67-83, called on line 86 at the start of every script run;
\* up: whether the store answers
load_defaults_from_mongo(up) ==
    /\ dpc = "start"
    /\ dpc' = "forms"
    /\ load_ok' = up
    /\ IF up
       THEN LET defaults == find_one(defaults_collection, GMAIL_USER) IN
            IF defaults # <<>>
            THEN /\ default_subject' = Get(defaults[1], "subject", "")
                 /\ default_body' = Get(defaults[1], "body", "")
                 /\ default_file_metadata' = Get(defaults[1], "file_metadata", <<>>)
                 /\ UNCHANGED defaults_collection
            ELSE /\ defaults_collection' = insert_one(defaults_collection,
                        [user |-> GMAIL_USER, subject |-> "", body |-> "",
                         file_metadata |-> <<>>])
                 /\ UNCHANGED <<default_subject, default_body, default_file_metadata>>
       ELSE UNCHANGED <<default_subject, default_body, default_file_metadata,
                        defaults_collection>>
    /\ UNCHANGED <<default_files, saved, sendVars, validatorVars>>

\* lines 151-174: the "Save defaults" button was pressed with this form content
SaveDefaults(d_subject, d_body, d_files, up) ==
    /\ dpc = "forms"
    /\ dpc' = "start"
    /\ default_subject' = d_subject
    /\ default_body' = d_body
    /\ default_files' = d_files
    /\ LET file_metadata == FileMetadata(d_files) IN
       /\ default_file_metadata' = file_metadata
       /\ IF up
          THEN /\ defaults_collection' =
                    update_one(defaults_collection, GMAIL_USER,
                               [subject |-> d_subject, body |-> d_body,
                                file_metadata |-> file_metadata], TRUE)
               /\ saved' = <<[subject |-> d_subject, body |-> d_body,
                              file_metadata |-> file_metadata]>>
          ELSE /\ UNCHANGED defaults_collection
               /\ saved' = <<>>
    /\ UNCHANGED <<load_ok, sendVars, validatorVars>>

DefaultsStart ==
    /\ default_files = <<>>
    /\ default_subject = ""
    /\ default_body = ""
    /\ default_file_metadata = <<>>
    /\ defaults_collection \in InitialStores
    /\ dpc = "start"
    /\ saved = <<>>
    /\ load_ok = FALSE
    /\ SendInit
    /\ ValidatorInit

DefaultsNext ==
    \/ \E up \in BOOLEAN : load_defaults_from_mongo(up)
    \/ \E d_subject \in Subjects, d_body \in Bodies \cup {""},
          d_files \in DefaultBatches, up \in BOOLEAN :
         SaveDefaults(d_subject, d_body, d_files, up)

SpecDefaults ==
    DefaultsStart /\ [][DefaultsNext]_vars

(***************************************************************************)
(* The validator applied to every string over a small alphabet.            *)
(***************************************************************************)
TypedChars ==
    {"a", "_", "-", ".", "@", " ", "\n"}

KeyIn(c) ==
    /\ Len(candidate) < MaxLen
    /\ candidate' = Append(candidate, c)
    /\ verdict' = is_valid_email(candidate')
    /\ UNCHANGED <<default_files, defaultsVars, sendVars>>

ValidatorStart ==
    /\ default_files = <<>>
    /\ DefaultsInit
    /\ SendInit
    /\ ValidatorInit

ValidatorNext ==
    \E c \in TypedChars : KeyIn(c)

SpecValidator ==
    ValidatorStart /\ [][ValidatorNext]_vars

(***************************************************************************)
(* Vocabulary of the properties.                                           *)
(***************************************************************************)
\* the outcome of the send action, in the terms of the error taxonomy
KindOf(text) ==
    CASE text = MSG_NO_RECIPIENT -> "NoRecipients"
      [] text = MSG_INVALID -> "InvalidRecipients"
      [] text = MSG_SENT -> "Sent"
      [] text = MSG_AUTH -> "AuthenticationFailed"
      [] text = MSG_REFUSED -> "RecipientsRefused"
      [] text = MSG_FAILED -> "TransportFailure"
      [] OTHER -> "Other"

Reports ==
    SelectSeq(ui, LAMBDA m : m.level # "warning")

OutcomeKind ==
    IF exception # "none" THEN "Exception"
    ELSE IF Reports = <<>> THEN "Pending"
    ELSE KindOf(Reports[Len(Reports)].text)

\* what the reported outcome names (addresses, or the failure's description)
OutcomeArgs ==
    IF Reports = <<>> THEN <<>> ELSE Reports[Len(Reports)].args

\* the addresses the user typed: the pieces between the commas, trimmed,
\* without the empty ones
TypedAddresses ==
    SelectSeq([i \in 1..Len(raw_pieces) |-> raw_pieces[i].core], LAMBDA a : a # <<>>)

FailingAddresses ==
    SelectSeq(TypedAddresses, LAMBDA a : ~is_valid_email(a))

TenMiB ==
    10 * 1024 * 1024

WithinCap(files) ==
    SelectSeq(files, LAMBDA f : f.size <= TenMiB)

Oversized(files) ==
    SelectSeq(files, LAMBDA f : f.size > TenMiB)

Names(files) ==
    [i \in 1..Len(files) |-> files[i].name]

\* the upload a temp path was created for
SourceOf(path) ==
    (CHOOSE e \in created : e.path = path).of

Sources(paths) ==
    [i \in 1..Len(paths) |-> SourceOf(paths[i])]

\* the paths the staging call for this batch returned
RECURSIVE PathsOf(_, _)
PathsOf(which, log) ==
    IF log = <<>> THEN <<>>
    ELSE (IF Head(log).which = which /\ ~Head(log).raised THEN Head(log).paths ELSE <<>>)
         \o PathsOf(which, Tail(log))

Transported ==
    {"Sent", "AuthenticationFailed", "RecipientsRefused", "TransportFailure"}

\* C1: whichever way a send action that reached staging ends, no temp file
\* that staging created for it exists when the action has finished.
C1_NoStagedFileSurvives ==
    (pc = "done" /\ "stage_default" \in Range(steps)) => created \cap disk = {}

\* C2: when some typed address fails the validator the send ends with
\* InvalidRecipients naming exactly the failing addresses in input order, and
\* nothing was staged, built or submitted; a message is only ever built when
\* every recipient passes the validator.
C2_InvalidRecipientsAbort ==
    /\ (pc # "idle" /\ FailingAddresses # <<>>) =>
          /\ pc = "done"
          /\ OutcomeKind = "InvalidRecipients"
          /\ ui = <<Message("error", MSG_INVALID, FailingAddresses)>>
          /\ created = {} /\ disk = {} /\ stage_log = <<>>
          /\ msg = <<>>
          /\ relay_log = <<>>
    /\ msg # <<>> =>
          /\ recipients = TypedAddresses
          /\ \A i \in 1..Len(recipients) : is_valid_email(recipients[i])

C2_Witness ==
    /\ pc = "done"
    /\ OutcomeKind = "InvalidRecipients"
    /\ Len(TypedAddresses) = 2
    /\ Len(FailingAddresses) = 1
    /\ default_files # <<>>
    /\ more_files # <<>>

\* C3: the recipient list is the typed addresses in input order, and an input
\* whose list is empty ends with NoRecipients: no message is built or
\* submitted with an empty recipient list.
C3_EmptyListIsNoRecipients ==
    /\ pc # "idle" => recipients = TypedAddresses
    /\ msg # <<>> => recipients # <<>>
    /\ \A i \in 1..Len(relay_log) : relay_log[i].rcpts # <<>>
    /\ (pc = "done" /\ exception = "none" /\ TypedAddresses = <<>>) =>
          OutcomeKind = "NoRecipients"

\* C4: a send during which the relay rejected envelope recipient r ends with
\* RecipientsRefused naming r, and its staged temp files are deleted.
C4_RefusedRecipientReported ==
    pc = "done" =>
       \A i \in 1..Len(relay_log) :
          \A r \in relay_log[i].relay.refused :
             /\ OutcomeKind = "RecipientsRefused"
             /\ r \in Range(OutcomeArgs)
             /\ created \cap disk = {}

\* the relay accepted the submission: the session completed and the message
\* was taken for at least one envelope recipient
Accepted(e) ==
    /\ e.relay.fault = "none"
    /\ Range(e.rcpts) \ e.relay.refused # {}

\* C5: the transport never raises; it reports no error exactly when the relay
\* accepted the submission, AuthenticationFailed when the credential is
\* rejected, RecipientsRefused when one or more envelope recipients are
\* rejected, TransportFailure with the description for any other failure.
C5_TransportClassifies ==
    (pc \in {"cleanup", "done"} /\ relay_log # <<>> /\ recipients # <<>>) =>
       LET e == relay_log[1] IN
       /\ exception = "none"
       /\ (OutcomeKind = "Sent") <=> Accepted(e)
       /\ e.relay.fault = "auth" => OutcomeKind = "AuthenticationFailed"
       /\ e.relay.refused # {} => OutcomeKind = "RecipientsRefused"
       /\ (e.relay.fault \in {"connect", "mail_from", "data", "quit"}) =>
             /\ OutcomeKind = "TransportFailure"
             /\ OutcomeArgs = <<e.result>>

\* C6: no temp file is ever created for an upload above 10 MiB; a staging call
\* returns the files of at most 10 MiB in input order and warns once, by name,
\* for each larger one; the message is built from the remaining attachments.
C6_OversizedSkipped ==
    /\ \A e \in created \cup disk : e.size <= TenMiB
    /\ \A i \in 1..Len(stage_log) :
          LET c == stage_log[i] IN
          ~c.raised =>
             /\ Sources(c.paths) = Names(WithinCap(c.files))
             /\ c.warnings = [k \in 1..Len(Oversized(c.files)) |->
                                Message("warning", MSG_TOO_LARGE,
                                        <<Oversized(c.files)[k].name>>)]
    /\ msg # <<>> =>
          [k \in 1..Len(msg[1].attachments) |-> msg[1].attachments[k].payload]
             = Names(WithinCap(default_files \o more_files))

C6_Witness ==
    /\ pc = "done"
    /\ OutcomeKind = "Sent"
    /\ Len(more_files) = 2
    /\ Len(Oversized(more_files)) = 1
    /\ Len(msg[1].attachments) = Len(default_files) + 1
    /\ Len(SelectSeq(ui, LAMBDA m : m.level = "warning")) = 1

\* C7: an I/O failure on one file of a batch does not raise out of the stager,
\* and the other files of the batch are still staged and returned.
C7_StagerSurvivesIoFailure ==
    \A i \in 1..Len(stage_log) :
       LET c == stage_log[i] IN
       /\ ~c.raised
       /\ Len(c.paths) = Len(WithinCap(c.files)) - (IF c.io.failAt = 0 THEN 0 ELSE 1)

\* C8: after a successful save of (S, B, meta), the next successful load
\* yields subject S, body B and attachment metadata meta, and the store holds
\* exactly one record for the owner.
C8_SaveLoadRoundTrip ==
    (dpc = "forms" /\ load_ok /\ saved # <<>>) =>
       /\ default_subject = saved[1].subject
       /\ default_body = saved[1].body
       /\ default_file_metadata = saved[1].file_metadata
       /\ Cardinality(Matching(defaults_collection, GMAIL_USER)) = 1

C8_Witness ==
    /\ dpc = "forms"
    /\ load_ok
    /\ saved # <<>>
    /\ saved[1].subject = "S"
    /\ saved[1].body = "B"
    /\ saved[1].file_metadata # <<>>
    /\ default_subject = "S"

\* local-part@domain: a non-empty local part of letters, digits and . _ + -,
\* and a domain of two or more non-empty labels of letters, digits and -
\* joined by single dots
Shape(s) ==
    \E at \in 1..Len(s) :
       LET local == SubSeq(s, 1, at - 1)
           domain == SubSeq(s, at + 1, Len(s))
           labels == Split(domain, ".")
       IN /\ s[at] = "@"
          /\ local # <<>>
          /\ Range(local) \subseteq Alnum \cup {".", "_", "+", "-"}
          /\ Len(labels) >= 2
          /\ \A k \in 1..Len(labels) :
                /\ labels[k] # <<>>
                /\ Range(labels[k]) \subseteq Alnum \cup {"-"}

\* C9: the validator accepts a string exactly when it has the shape
\* local-part@domain above; so strings with whitespace (a trailing newline
\* included), without "@" or without a dot in the domain are rejected.
C9_ValidIffShape ==
    verdict <=> Shape(candidate)

Order ==
    <<"validate", "stage_default", "stage_extra", "build", "send", "cleanup">>

\* C10: the steps of one send happen in the order validate, stage defaults,
\* stage extras, build, submit, delete; the builder gets the default-file
\* paths before the extra-file paths; the relay sees at most one submission.
C10_StepOrder ==
    /\ \A i \in 1..Len(steps) : steps[i] = Order[i] \/ (steps[i] = "cleanup" /\ i = Len(steps))
    /\ (pc = "done" /\ OutcomeKind \in Transported) => steps = Order
    /\ Len(relay_log) <= 1
    /\ msg # <<>> =>
          /\ tmp_paths = PathsOf("stage_default", stage_log) \o PathsOf("stage_extra", stage_log)
          /\ Sources(tmp_paths) = Names(WithinCap(default_files)) \o Names(WithinCap(more_files))
          /\ [k \in 1..Len(msg[1].attachments) |-> msg[1].attachments[k].filename]
                = [k \in 1..Len(tmp_paths) |-> basename(tmp_paths[k])]

C10_Witness ==
    /\ pc = "done"
    /\ steps = Order
    /\ OutcomeKind = "TransportFailure"
    /\ Len(relay_log) = 1
    /\ PathsOf("stage_default", stage_log) # <<>>
    /\ PathsOf("stage_extra", stage_log) # <<>>
    /\ disk = {}

====
